---------------------------- MODULE Spec2Model ----------------------------
(***************************************************************************)
(* Microinjector firmware v2.0 (src/injector2/microinject/microinject.ino) *)
(* as a state machine: the session state, the active-move globals, the     *)
(* program store, the AccelStepper object the sketch drives and the serial *)
(* receive buffer.  One action is one call of loop() along one of its      *)
(* paths, or one line handled by the blocking program editor.              *)
(*                                                                         *)
(* Speeds are carried as their squares (steps/s)^2: computeSpeed() takes a *)
(* square root of an integer, and every comparison the sketch and the      *)
(* library make on a speed is a comparison of non-negative numbers, so it  *)
(* is decided exactly on the squares.                                      *)
(***************************************************************************)
EXTENDS Integers, Sequences, FiniteSets, TLC

\* ------------------------------------------------------------------ bounds
MaxQueue == 1         \* lines the serial receive buffer holds in the model
TicksPerSecond == 2   \* model time units per second (granularity of micros())
MaxDist == 3          \* longest move of the single-move model, in steps
MaxSpeed == 2         \* highest start / end speed of the single-move model
MaxAccel == 2         \* largest |accel| of the single-move model
ProfDist == 3         \* longest move of the velocity-profile model
ProfSpeed == 4        \* highest start / end speed of that model
ProfAccel == 3        \* largest |accel| of that model
ProfStepsDone == 8    \* steps_done values the profile is evaluated at, at least
MaxProg == 2          \* steps the store holds at the start of the progress model

\* ------------------------------------------- values #defined by the sketch
MAX_STEPS == 5
ABS_MAX_SPEED == 1000
ABS_MAX_ACCEL == 1000
MAX_DISTANCE == 999999

STATE_IDLE == "STATE_IDLE"
STATE_MOVING_MANUAL == "STATE_MOVING_MANUAL"
STATE_MOVING_PROG == "STATE_MOVING_PROG"
State == {STATE_IDLE, STATE_MOVING_MANUAL, STATE_MOVING_PROG}

Moving == {STATE_MOVING_MANUAL, STATE_MOVING_PROG}

\* --------------------------------------------------------------- utilities
Abs(x) == IF x < 0 THEN -x ELSE x
Min(a, b) == IF a < b THEN a ELSE b
Max(a, b) == IF a > b THEN a ELSE b

\* ------------------------------------------------------------------- Step
\* struct Step with every field zero.
ZeroStep ==
  [forward |-> FALSE, distance |-> 0, start_speed |-> 0, end_speed |-> 0,
   accel |-> 0]

\* The store with no live entry.
NoEntries == [i \in {} |-> ZeroStep]

\* Variant of ValidStep whose lower bounds are 0 instead of 1.
ValidStep_FromZero(st) ==
  /\ st.forward \in BOOLEAN
  /\ st.distance >= 0 /\ st.distance <= MAX_DISTANCE
  /\ st.start_speed >= 0 /\ st.start_speed <= ABS_MAX_SPEED
  /\ st.end_speed >= 0 /\ st.end_speed <= ABS_MAX_SPEED
  /\ st.accel >= -ABS_MAX_ACCEL /\ st.accel <= ABS_MAX_ACCEL

\* What promptStep() can return: every field passed its range check.
ValidStep(st) ==
  /\ st.forward \in BOOLEAN
  /\ st.distance >= 1 /\ st.distance <= MAX_DISTANCE
  /\ st.start_speed >= 1 /\ st.start_speed <= ABS_MAX_SPEED
  /\ st.end_speed >= 1 /\ st.end_speed <= ABS_MAX_SPEED
  /\ st.accel >= -ABS_MAX_ACCEL /\ st.accel <= ABS_MAX_ACCEL

MkStep(f, d, s, e, a) ==
  [forward |-> f, distance |-> d, start_speed |-> s, end_speed |-> e,
   accel |-> a]

\* Answers typed at the prompts that lie outside the ranges: promptLong()
\* and promptFloat() ask again until the answer is in range, so none of
\* these comes back from promptStep().
OutOfRangeSteps ==
  { MkStep(TRUE, 0, 1, 1, 0), MkStep(TRUE, MAX_DISTANCE + 1, 1, 1, 0),
    MkStep(TRUE, 1, 0, 1, 0), MkStep(FALSE, 1, 1, ABS_MAX_SPEED + 1, 0),
    MkStep(FALSE, 1, 1, 1, -ABS_MAX_ACCEL - 1) }

\* The answers typed at the prompts of promptStep() in the session model:
\* a forward ramp up over two steps and a backward constant-speed move of
\* one step.
InputSteps ==
  { MkStep(TRUE, 2, 1, 2, 1), MkStep(FALSE, 1, 2, 2, 0) }
  \cup OutOfRangeSteps

\* The answers typed at the prompts in the single-move model: every valid
\* step within the bounds.
MoveSteps ==
  { MkStep(f, d, s, e, a) :
      f \in BOOLEAN, d \in 1..MaxDist, s \in 1..MaxSpeed, e \in 1..MaxSpeed,
      a \in (-MaxAccel)..MaxAccel }

\* Lines that arrive on the serial port between prompts (already trimmed and
\* upper-cased).  In STATE_IDLE "X" is a line no case of the switch matches.
Lines == {"X", "M", "P", "R", "S", "C", ""}

VARIABLES
  state,          \* State state
  progStepIndex,  \* uint8_t progStepIndex
  program,        \* entries 0 .. programCount-1 of Step program[MAX_STEPS];
                  \* the sketch reads no entry at or past programCount
                  \* (lines 90, 219, 296-299, 312), and reading one here
                  \* stops the model checker with an error
  programCount,   \* uint8_t programCount
  g_moving, g_target_dist, g_start_speed, g_end_speed, g_accel, g_fwd,
  g_const_speed,  \* bool g_const_speed of the v1.0 sketch, which the v2.0
                  \* sketch no longer has
  stepper,        \* the AccelStepper object
  elapsed,        \* micros() - time of the last step, capped at one second
  serialIn,       \* complete lines waiting in the serial receive buffer
  pc,             \* "loop": between two calls of loop(); "editor": blocked
                  \* at the program editor's prompt inside case 'P'
  out,            \* lifecycle messages printed by the last transition
  stepped,        \* runSpeed() took a step in the last transition
  stepsSeen,      \* abs(currentPosition()) read at the done test of the
                  \* last transition, -1 when that test was not reached
  answered,       \* the Step promptStep() returned in the last transition
  lineRead,       \* the line the last transition read from the serial buffer
  runLog,         \* messages of the program run in progress / just finished
  runMoves        \* the moves startStep() set up during that run

vars ==
  <<state, progStepIndex, program, programCount, g_moving, g_target_dist,
    g_start_speed, g_end_speed, g_accel, g_fwd, g_const_speed, stepper,
    elapsed, serialIn, pc, out, stepped, stepsSeen, answered, lineRead,
    runLog, runMoves>>

progVars == <<program, programCount>>
moveVars == <<g_moving, g_target_dist, g_start_speed, g_end_speed, g_accel, g_fwd>>

\* ------------------------------------------------- lines read from serial
\* What Serial.readStringUntil('\n') returned: the first character of the
\* line and, for the editor's "D <n>", the number after it.
Typed(line) == [line |-> line, n |-> 0]
NoLine == Typed("none")

\* ------------------------------------------------------ lifecycle messages
Ev(name) == [ev |-> name]
StepEv(k, n) == [ev |-> "StepStart", idx |-> k, total |-> n]
Emitted(log, name) == \E i \in DOMAIN log : log[i].ev = name
CountEv(log, name) == Cardinality({i \in DOMAIN log : log[i].ev = name})

\* ------------------------------------------------ AccelStepper (the manual)
\* The object after its constructor: positions 0, speed 0.0, maxSpeed 1.0,
\* outputs enabled by the constructor.
NewStepper ==
  [currentPos |-> 0, targetPos |-> 0, speedSq |-> 0, dirCW |-> TRUE,
   maxSpeedSq |-> 1, enabled |-> TRUE]

setMaxSpeed(st, sq) == [st EXCEPT !.maxSpeedSq = sq]

\* Variant of setSpeed that leaves the direction as it was.
setSpeed_KeepsDir(st, sq, cw) ==
  LET lim == Min(sq, st.maxSpeedSq)
  IN  [st EXCEPT !.speedSq = lim]

\* setSpeed(): the speed is limited to +/- maxSpeed; the direction follows
\* the sign of the speed (a speed of zero has no sign and keeps it).
setSpeed(st, sq, cw) ==
  LET lim == Min(sq, st.maxSpeedSq)
  IN  [st EXCEPT !.speedSq = lim, !.dirCW = IF lim = 0 THEN @ ELSE cw]

\* setCurrentPosition(): current and target position both become the value,
\* speed (and with it stepInterval) becomes 0.
setCurrentPosition(st, p) ==
  [st EXCEPT !.currentPos = p, !.targetPos = p, !.speedSq = 0]

\* Variant of enableOutputs that does nothing.
enableOutputs_Noop(st) == st

enableOutputs(st) == [st EXCEPT !.enabled = TRUE]

\* Variant of disableOutputs that does nothing.
disableOutputs_Noop(st) == st

disableOutputs(st) == [st EXCEPT !.enabled = FALSE]

\* Variant of StepDue that does not look at the time.
StepDue_IgnoresTime(st, e) == st.speedSq > 0

\* A step is due when the time since the last step is at least stepInterval,
\* the reciprocal of the speed: e >= TicksPerSecond / sqrt(speedSq).  A
\* stepInterval of 0 (speed 0) means no motion.
StepDue(st, e) ==
  /\ st.speedSq > 0
  /\ e * e * st.speedSq >= TicksPerSecond * TicksPerSecond


\* Variant of runSpeed that moves two positions when a step is due.
runSpeed_Double(st, e) ==
  IF StepDue(st, e)
  THEN [st EXCEPT !.currentPos = IF st.dirCW THEN @ + 2 ELSE @ - 2]
  ELSE st

\* runSpeed(): if a step is due, increment or decrement currentPosition by
\* one and call step(); otherwise do nothing.
runSpeed(st, e) ==
  IF StepDue(st, e)
  THEN [st EXCEPT !.currentPos = IF st.dirCW THEN @ + 1 ELSE @ - 1]
  ELSE st

\* Variant of computeSpeed that clamps on the wrong side of the end speed.
computeSpeed_ClampSwapped(steps_done) ==
  IF g_accel = 0 \/ g_start_speed = g_end_speed
  THEN g_start_speed * g_start_speed
  ELSE LET raw == g_start_speed * g_start_speed + 2 * g_accel * steps_done
           v2 == IF raw < 0 THEN 0 ELSE raw
           endSq == g_end_speed * g_end_speed
           v == IF g_accel > 0 THEN Max(v2, endSq) ELSE Min(v2, endSq)
       IN  Max(v, 1)

\* Variant of computeSpeed whose constant branch returns the end speed.
computeSpeed_ConstEnd(steps_done) ==
  IF g_accel = 0 \/ g_start_speed = g_end_speed
  THEN g_end_speed * g_end_speed
  ELSE LET raw == g_start_speed * g_start_speed + 2 * g_accel * steps_done
           v2 == IF raw < 0 THEN 0 ELSE raw
           endSq == g_end_speed * g_end_speed
           v == IF g_accel > 0 THEN Min(v2, endSq) ELSE Max(v2, endSq)
       IN  Max(v, 1)

\* Variant of computeSpeed without the cap of line 172.
computeSpeed_NoCap(steps_done) ==
  IF g_accel = 0 \/ g_start_speed = g_end_speed
  THEN g_start_speed * g_start_speed
  ELSE LET raw == g_start_speed * g_start_speed + 2 * g_accel * steps_done
           v2 == IF raw < 0 THEN 0 ELSE raw
           endSq == g_end_speed * g_end_speed
           v == IF g_accel > 0 THEN v2 ELSE Max(v2, endSq)
       IN  Max(v, 1)

\* Variant of computeSpeed without the floor of line 173.
computeSpeed_NoFloor(steps_done) ==
  IF g_accel = 0 \/ g_start_speed = g_end_speed
  THEN g_start_speed * g_start_speed
  ELSE LET raw == g_start_speed * g_start_speed + 2 * g_accel * steps_done
           v2 == IF raw < 0 THEN 0 ELSE raw
           endSq == g_end_speed * g_end_speed
           v == IF g_accel > 0 THEN Min(v2, endSq) ELSE v2
       IN  Max(v, 1)
\* Variant of computeSpeed that decelerates by the kinematic formula alone:
\* v2 floored at zero, no floor at the end speed and none at 1 step/s.
computeSpeed_RawDecel(steps_done) ==
  IF g_accel = 0 \/ g_start_speed = g_end_speed
  THEN g_start_speed * g_start_speed
  ELSE LET raw == g_start_speed * g_start_speed + 2 * g_accel * steps_done
           v2 == IF raw < 0 THEN 0 ELSE raw
           endSq == g_end_speed * g_end_speed
       IN  IF g_accel > 0 THEN Max(Min(v2, endSq), 1) ELSE v2

\* ------------------------------------------------------------ the sketch
\* computeSpeed(): the square of the value it returns.
computeSpeed(steps_done) ==
  IF g_accel = 0 \/ g_start_speed = g_end_speed
  THEN g_start_speed * g_start_speed
  ELSE LET raw == g_start_speed * g_start_speed + 2 * g_accel * steps_done
           v2 == IF raw < 0 THEN 0 ELSE raw
           endSq == g_end_speed * g_end_speed
           v == IF g_accel > 0 THEN Min(v2, endSq) ELSE Max(v2, endSq)
       IN  Max(v, 1)


\* Variant of startStepper that keeps the position of the previous move.
startStepper_NoReset(s0, st) ==
  LET gs == Max(1, st.start_speed)
      ge == Max(1, st.end_speed)
      max_v == Max(gs, ge)
      s2 == setMaxSpeed(s0, max_v * max_v)
  IN  setSpeed(s2, gs * gs, st.forward)

\* startStep(): the stepper after the call; the globals are set by
\* StartGlobals.
startStepper(s0, st) ==
  LET gs == Max(1, st.start_speed)
      ge == Max(1, st.end_speed)
      max_v == Max(gs, ge)
      s1 == setCurrentPosition(s0, 0)
      s2 == setMaxSpeed(s1, max_v * max_v)
  IN  setSpeed(s2, gs * gs, st.forward)


\* Variant of StartGlobals that ignores the direction of the step.
StartGlobals_FwdOnly(st) ==
  /\ g_target_dist' = st.distance
  /\ g_start_speed' = Max(1, st.start_speed)
  /\ g_end_speed' = Max(1, st.end_speed)
  /\ g_accel' = st.accel
  /\ g_fwd' = TRUE
  /\ g_moving' = TRUE

StartGlobals(st) ==
  /\ g_target_dist' = st.distance
  /\ g_start_speed' = Max(1, st.start_speed)
  /\ g_end_speed' = Max(1, st.end_speed)
  /\ g_accel' = st.accel
  /\ g_fwd' = st.forward
  /\ g_moving' = TRUE

\* The move the globals describe, as a Step.
ActiveMove ==
  [forward |-> g_fwd, distance |-> g_target_dist,
   start_speed |-> g_start_speed, end_speed |-> g_end_speed,
   accel |-> g_accel]


\* Variant of Serviced that runs the motion service whether or not a move
\* is active.
Serviced_Always ==
  LET steps_done == Abs(stepper.currentPos)
      v == computeSpeed(steps_done)
      s1 == setMaxSpeed(stepper, v)
      s2 == setSpeed(s1, v, g_fwd)
  IN  runSpeed(s2, elapsed)

\* Variant of Serviced that computes the speed for the step about to be
\* taken as if it were already done.
Serviced_StepsAhead ==
  IF g_moving
  THEN LET steps_done == Abs(stepper.currentPos) + 1
           v == computeSpeed(steps_done)
           s1 == setMaxSpeed(stepper, v)
           s2 == setSpeed(s1, v, g_fwd)
       IN  runSpeed(s2, elapsed)
  ELSE stepper

\* loop(), lines 194-201: the stepper after the motion service.
Serviced ==
  IF g_moving
  THEN LET steps_done == Abs(stepper.currentPos)
           v == computeSpeed(steps_done)
           s1 == setMaxSpeed(stepper, v)
           s2 == setSpeed(s1, v, g_fwd)
       IN  runSpeed(s2, elapsed)
  ELSE stepper

DidStep == Serviced.currentPos # stepper.currentPos

\* runSpeed() records the time of the step it took.
ElapsedAfterService == IF DidStep THEN 0 ELSE elapsed

\* Variant of Done that compares the signed position with the distance.
Done_Signed == Serviced.currentPos >= g_target_dist

\* Variant of Done that needs the distance to be exceeded.
Done_Strict == Abs(Serviced.currentPos) > g_target_dist

\* loop(), line 206
Done == Abs(Serviced.currentPos) >= g_target_dist

\* The stepper as setup() leaves it (lines 183-184).
SetupStepper ==
  disableOutputs(setMaxSpeed(NewStepper, ABS_MAX_SPEED * ABS_MAX_SPEED))

\* setup(): state after construction of the globals and setup().
Init ==
  /\ state = STATE_IDLE
  /\ progStepIndex = 0
  /\ program = NoEntries
  /\ programCount = 0
  /\ g_moving = FALSE
  /\ g_target_dist = 0
  /\ g_start_speed = 1
  /\ g_end_speed = 1
  /\ g_accel = 0
  /\ g_fwd = TRUE
  /\ g_const_speed = FALSE
  /\ stepper = SetupStepper
  /\ elapsed = 0
  /\ serialIn = <<>>
  /\ pc = "loop"
  /\ out = <<>>
  /\ stepped = FALSE
  /\ stepsSeen = -1
  /\ answered = ZeroStep
  /\ lineRead = NoLine
  /\ runLog = <<>>
  /\ runMoves = <<>>

\* ---------------------------------------------------------- environment
\* A complete line arrives in the serial receive buffer.
Send(line) ==
  /\ Len(serialIn) < MaxQueue
  /\ serialIn' = Append(serialIn, line)
  /\ out' = <<>> /\ stepped' = FALSE /\ stepsSeen' = -1
  /\ UNCHANGED g_const_speed
  /\ answered' = ZeroStep /\ lineRead' = NoLine
  /\ UNCHANGED <<state, progStepIndex, progVars, moveVars, stepper, elapsed,
                 pc, runLog, runMoves>>

SendLine == \E line \in Lines : Send(line)

\* micros() advances by one model time unit.
TimeAdvance ==
  /\ elapsed < TicksPerSecond
  /\ elapsed' = elapsed + 1
  /\ out' = <<>> /\ stepped' = FALSE /\ stepsSeen' = -1
  /\ UNCHANGED g_const_speed
  /\ answered' = ZeroStep /\ lineRead' = NoLine
  /\ UNCHANGED <<state, progStepIndex, progVars, moveVars, stepper, serialIn,
                 pc, runLog, runMoves>>

\* ------------------------------------------- loop() while a move is active
InMove == pc = "loop" /\ state \in Moving


\* Variant of TickManualDone that prints nothing.
TickManualDone_Silent ==
  /\ InMove /\ Done /\ state = STATE_MOVING_MANUAL
  /\ g_moving' = FALSE
  /\ stepper' = disableOutputs(Serviced)
  /\ elapsed' = ElapsedAfterService
  /\ out' = <<>>
  /\ state' = STATE_IDLE
  /\ stepped' = DidStep /\ stepsSeen' = Abs(Serviced.currentPos)
  /\ UNCHANGED g_const_speed
  /\ answered' = ZeroStep /\ lineRead' = NoLine
  /\ UNCHANGED <<progStepIndex, progVars, g_target_dist, g_start_speed,
                 g_end_speed, g_accel, g_fwd, serialIn, pc, runLog, runMoves>>

\* Lines 208-216: the manual move is done.
TickManualDone ==
  /\ InMove /\ Done /\ state = STATE_MOVING_MANUAL
  /\ g_moving' = FALSE
  /\ stepper' = disableOutputs(Serviced)
  /\ elapsed' = ElapsedAfterService
  /\ out' = <<Ev("MoveComplete")>>
  /\ state' = STATE_IDLE
  /\ stepped' = DidStep /\ stepsSeen' = Abs(Serviced.currentPos)
  /\ UNCHANGED g_const_speed
  /\ answered' = ZeroStep /\ lineRead' = NoLine
  /\ UNCHANGED <<progStepIndex, progVars, g_target_dist, g_start_speed,
                 g_end_speed, g_accel, g_fwd, serialIn, pc, runLog, runMoves>>

\* Variant of TickProgAdvance whose test lets the index reach the count.
TickProgAdvance_PastEnd ==
  /\ InMove /\ Done /\ state = STATE_MOVING_PROG
  /\ progStepIndex + 1 <= programCount
  /\ progStepIndex' = progStepIndex + 1
  /\ LET st == IF progStepIndex + 1 \in DOMAIN program
               THEN program[progStepIndex + 1] ELSE ZeroStep
         ev == StepEv(progStepIndex + 2, programCount)
     IN  /\ stepper' = startStepper(enableOutputs(disableOutputs(Serviced)), st)
         /\ StartGlobals(st)
         /\ out' = <<ev>>
         /\ runLog' = Append(runLog, ev)
  /\ runMoves' = Append(runMoves, ActiveMove')
  /\ elapsed' = ElapsedAfterService
  /\ stepped' = DidStep /\ stepsSeen' = Abs(Serviced.currentPos)
  /\ UNCHANGED g_const_speed
  /\ answered' = ZeroStep /\ lineRead' = NoLine
  /\ UNCHANGED <<state, progVars, serialIn, pc>>

\* Variant of TickProgAdvance that starts the step at the old index again.
TickProgAdvance_StaleIndex ==
  /\ InMove /\ Done /\ state = STATE_MOVING_PROG
  /\ progStepIndex + 1 < programCount
  /\ progStepIndex' = progStepIndex + 1
  /\ LET st == program[progStepIndex]
         ev == StepEv(progStepIndex + 2, programCount)
     IN  /\ stepper' = startStepper(enableOutputs(disableOutputs(Serviced)), st)
         /\ StartGlobals(st)
         /\ out' = <<ev>>
         /\ runLog' = Append(runLog, ev)
  /\ runMoves' = Append(runMoves, ActiveMove')
  /\ elapsed' = ElapsedAfterService
  /\ stepped' = DidStep /\ stepsSeen' = Abs(Serviced.currentPos)
  /\ UNCHANGED g_const_speed
  /\ answered' = ZeroStep /\ lineRead' = NoLine
  /\ UNCHANGED <<state, progVars, serialIn, pc>>

\* Lines 208-224: a program step is done and another one follows.
TickProgAdvance ==
  /\ InMove /\ Done /\ state = STATE_MOVING_PROG
  /\ progStepIndex + 1 < programCount
  /\ progStepIndex' = progStepIndex + 1
  /\ LET st == program[progStepIndex + 1]
         ev == StepEv(progStepIndex + 2, programCount)
     IN  /\ stepper' = startStepper(enableOutputs(disableOutputs(Serviced)), st)
         /\ StartGlobals(st)
         /\ out' = <<ev>>
         /\ runLog' = Append(runLog, ev)
  /\ runMoves' = Append(runMoves, ActiveMove')
  /\ elapsed' = ElapsedAfterService
  /\ stepped' = DidStep /\ stepsSeen' = Abs(Serviced.currentPos)
  /\ UNCHANGED g_const_speed
  /\ answered' = ZeroStep /\ lineRead' = NoLine
  /\ UNCHANGED <<state, progVars, serialIn, pc>>

\* Variant of TickProgComplete that empties the store when the run ends.
TickProgComplete_ClearsStore ==
  /\ InMove /\ Done /\ state = STATE_MOVING_PROG
  /\ ~(progStepIndex + 1 < programCount)
  /\ progStepIndex' = progStepIndex + 1
  /\ g_moving' = FALSE
  /\ stepper' = disableOutputs(Serviced)
  /\ elapsed' = ElapsedAfterService
  /\ out' = <<Ev("ProgramComplete")>>
  /\ runLog' = Append(runLog, Ev("ProgramComplete"))
  /\ state' = STATE_IDLE
  /\ stepped' = DidStep /\ stepsSeen' = Abs(Serviced.currentPos)
  /\ UNCHANGED g_const_speed
  /\ answered' = ZeroStep /\ lineRead' = NoLine
  /\ program' = NoEntries /\ programCount' = 0
  /\ UNCHANGED <<g_target_dist, g_start_speed, g_end_speed, g_accel,
                 g_fwd, serialIn, pc, runMoves>>

\* Lines 208-229: the last program step is done.
TickProgComplete ==
  /\ InMove /\ Done /\ state = STATE_MOVING_PROG
  /\ ~(progStepIndex + 1 < programCount)
  /\ progStepIndex' = progStepIndex + 1
  /\ g_moving' = FALSE
  /\ stepper' = disableOutputs(Serviced)
  /\ elapsed' = ElapsedAfterService
  /\ out' = <<Ev("ProgramComplete")>>
  /\ runLog' = Append(runLog, Ev("ProgramComplete"))
  /\ state' = STATE_IDLE
  /\ stepped' = DidStep /\ stepsSeen' = Abs(Serviced.currentPos)
  /\ UNCHANGED g_const_speed
  /\ answered' = ZeroStep /\ lineRead' = NoLine
  /\ UNCHANGED <<progVars, g_target_dist, g_start_speed, g_end_speed, g_accel,
                 g_fwd, serialIn, pc, runMoves>>


\* Variant of AbortStepper that leaves the coils energised.
AbortStepper_NoDisable(st) == setSpeed(st, 0, st.dirCW)

\* Lines 234-247, s == "X": abort.
AbortStepper(st) == disableOutputs(setSpeed(st, 0, st.dirCW))

\* Variant of TickAbort that, in a program with steps left, gives up the
\* current step only and goes on with the next one.
TickAbort_NextStep ==
  /\ InMove /\ ~Done
  /\ serialIn # <<>> /\ Head(serialIn) = "X"
  /\ serialIn' = Tail(serialIn)
  /\ elapsed' = ElapsedAfterService
  /\ stepped' = DidStep /\ stepsSeen' = Abs(Serviced.currentPos)
  /\ UNCHANGED g_const_speed
  /\ answered' = ZeroStep /\ lineRead' = Typed(Head(serialIn))
  /\ out' = <<Ev("Aborted")>>
  /\ IF state = STATE_MOVING_PROG /\ progStepIndex + 1 < programCount
     THEN /\ progStepIndex' = progStepIndex + 1
          /\ stepper' = startStepper(enableOutputs(AbortStepper(Serviced)),
                                     program[progStepIndex + 1])
          /\ StartGlobals(program[progStepIndex + 1])
          /\ runLog' = Append(runLog, Ev("Aborted"))
          /\ runMoves' = Append(runMoves, ActiveMove')
          /\ UNCHANGED <<state, progVars, pc>>
     ELSE /\ stepper' = AbortStepper(Serviced)
          /\ g_moving' = FALSE
          /\ runLog' = IF state = STATE_MOVING_PROG
                       THEN Append(runLog, Ev("Aborted")) ELSE runLog
          /\ state' = STATE_IDLE
          /\ UNCHANGED <<progStepIndex, progVars, g_target_dist,
                         g_start_speed, g_end_speed, g_accel, g_fwd, pc,
                         runMoves>>

\* Variant of TickAbort that leaves g_moving set.
TickAbort_StillMoving ==
  /\ InMove /\ ~Done
  /\ serialIn # <<>> /\ Head(serialIn) = "X"
  /\ serialIn' = Tail(serialIn)
  /\ stepper' = AbortStepper(Serviced)
  /\ elapsed' = ElapsedAfterService
  /\ out' = <<Ev("Aborted")>>
  /\ runLog' = IF state = STATE_MOVING_PROG
               THEN Append(runLog, Ev("Aborted")) ELSE runLog
  /\ state' = STATE_IDLE
  /\ stepped' = DidStep /\ stepsSeen' = Abs(Serviced.currentPos)
  /\ UNCHANGED g_const_speed
  /\ answered' = ZeroStep /\ lineRead' = Typed(Head(serialIn))
  /\ UNCHANGED <<progStepIndex, progVars, moveVars, pc, runMoves>>

TickAbort ==
  /\ InMove /\ ~Done
  /\ serialIn # <<>> /\ Head(serialIn) = "X"
  /\ serialIn' = Tail(serialIn)
  /\ stepper' = AbortStepper(Serviced)
  /\ g_moving' = FALSE
  /\ elapsed' = ElapsedAfterService
  /\ out' = <<Ev("Aborted")>>
  /\ runLog' = IF state = STATE_MOVING_PROG
               THEN Append(runLog, Ev("Aborted")) ELSE runLog
  /\ state' = STATE_IDLE
  /\ stepped' = DidStep /\ stepsSeen' = Abs(Serviced.currentPos)
  /\ UNCHANGED g_const_speed
  /\ answered' = ZeroStep /\ lineRead' = Typed(Head(serialIn))
  /\ UNCHANGED <<progStepIndex, progVars, g_target_dist, g_start_speed,
                 g_end_speed, g_accel, g_fwd, pc, runMoves>>

\* Variant of TickDiscard that leaves the line it read in the buffer.
TickDiscard_LeavesLine ==
  /\ InMove /\ ~Done
  /\ serialIn # <<>> /\ Head(serialIn) # "X"
  /\ stepper' = Serviced
  /\ elapsed' = ElapsedAfterService
  /\ out' = <<>>
  /\ stepped' = DidStep /\ stepsSeen' = Abs(Serviced.currentPos)
  /\ UNCHANGED g_const_speed
  /\ answered' = ZeroStep /\ lineRead' = Typed(Head(serialIn))
  /\ UNCHANGED <<state, progStepIndex, progVars, moveVars, serialIn, pc,
                 runLog, runMoves>>

\* Variant of TickDiscard that carries out a 'C' read during a move.
TickDiscard_Clears ==
  /\ InMove /\ ~Done
  /\ serialIn # <<>> /\ Head(serialIn) # "X"
  /\ serialIn' = Tail(serialIn)
  /\ stepper' = Serviced
  /\ elapsed' = ElapsedAfterService
  /\ out' = <<>>
  /\ stepped' = DidStep /\ stepsSeen' = Abs(Serviced.currentPos)
  /\ UNCHANGED g_const_speed
  /\ answered' = ZeroStep /\ lineRead' = Typed(Head(serialIn))
  /\ IF Head(serialIn) = "C"
     THEN programCount' = 0 /\ program' = NoEntries
     ELSE UNCHANGED progVars
  /\ UNCHANGED <<state, progStepIndex, moveVars, pc, runLog, runMoves>>

\* Lines 234-247, any other line: read and dropped.
TickDiscard ==
  /\ InMove /\ ~Done
  /\ serialIn # <<>> /\ Head(serialIn) # "X"
  /\ serialIn' = Tail(serialIn)
  /\ stepper' = Serviced
  /\ elapsed' = ElapsedAfterService
  /\ out' = <<>>
  /\ stepped' = DidStep /\ stepsSeen' = Abs(Serviced.currentPos)
  /\ UNCHANGED g_const_speed
  /\ answered' = ZeroStep /\ lineRead' = Typed(Head(serialIn))
  /\ UNCHANGED <<state, progStepIndex, progVars, moveVars, pc, runLog, runMoves>>

\* Lines 234-247, nothing to read.
TickNoInput ==
  /\ InMove /\ ~Done
  /\ serialIn = <<>>
  /\ stepper' = Serviced
  /\ elapsed' = ElapsedAfterService
  /\ out' = <<>>
  /\ stepped' = DidStep /\ stepsSeen' = Abs(Serviced.currentPos)
  /\ UNCHANGED g_const_speed
  /\ answered' = ZeroStep /\ lineRead' = NoLine
  /\ UNCHANGED <<state, progStepIndex, progVars, moveVars, serialIn, pc,
                 runLog, runMoves>>
\* Variant of InIdle for a moving branch that does not return (line 247).
InIdle_NoReturn == pc = "loop"

\* ------------------------------------------------- loop() in STATE_IDLE
InIdle == pc = "loop" /\ state = STATE_IDLE

\* What every path through loop() in STATE_IDLE shares: the motion service
\* at the top, no done test.
IdleService ==
  /\ elapsed' = ElapsedAfterService
  /\ stepped' = DidStep /\ stepsSeen' = -1
  /\ UNCHANGED g_const_speed

NoPrompt == answered' = ZeroStep

Cmd(line) ==
  /\ InIdle /\ serialIn # <<>> /\ Head(serialIn) = line
  /\ lineRead' = Typed(line)

\* Line 251: nothing to read.
IdleNoInput ==
  /\ InIdle /\ serialIn = <<>>
  /\ stepper' = Serviced
  /\ IdleService /\ NoPrompt /\ lineRead' = NoLine
  /\ out' = <<>>
  /\ UNCHANGED <<state, progStepIndex, progVars, moveVars, serialIn, pc,
                 runLog, runMoves>>

\* Line 254: an empty line reprints the menu.
CmdEmptyLine ==
  /\ Cmd("")
  /\ serialIn' = Tail(serialIn)
  /\ stepper' = Serviced
  /\ IdleService /\ NoPrompt
  /\ out' = <<>>
  /\ runLog' = <<>> /\ runMoves' = <<>>
  /\ UNCHANGED <<state, progStepIndex, progVars, moveVars, pc>>

\* case 'M'.  promptStep() blocks until each answer is in range;
\* promptDirection() reads and rejects every line still waiting in the
\* buffer, none of them being F or B.
CmdManualFrom(steps) ==
  /\ Cmd("M")
  /\ \E st \in steps :
       /\ ValidStep(st)
       /\ stepper' = startStepper(enableOutputs(Serviced), st)
       /\ StartGlobals(st)
       /\ answered' = st
  /\ serialIn' = <<>>
  /\ state' = STATE_MOVING_MANUAL
  /\ IdleService
  /\ out' = <<Ev("MoveStarted")>>
  /\ runLog' = <<>> /\ runMoves' = <<>>
  /\ UNCHANGED <<progStepIndex, progVars, pc>>

CmdManual == CmdManualFrom(InputSteps)

\* case 'P': enter the blocking editor loop.
CmdEditor ==
  /\ Cmd("P")
  /\ serialIn' = Tail(serialIn)
  /\ pc' = "editor"
  /\ stepper' = Serviced
  /\ IdleService /\ NoPrompt
  /\ out' = <<>>
  /\ runLog' = <<>> /\ runMoves' = <<>>
  /\ UNCHANGED <<state, progStepIndex, progVars, moveVars>>

\* case 'R', line 312: nothing stored.
CmdRunEmpty ==
  /\ Cmd("R") /\ programCount = 0
  /\ serialIn' = Tail(serialIn)
  /\ stepper' = Serviced
  /\ IdleService /\ NoPrompt
  /\ out' = <<Ev("ProgramEmpty")>>
  /\ runLog' = <<>> /\ runMoves' = <<>>
  /\ UNCHANGED <<state, progStepIndex, progVars, moveVars, pc>>


\* Variant of CmdRun that does not reset progStepIndex.
CmdRun_NoIndexReset ==
  /\ Cmd("R") /\ programCount # 0
  /\ serialIn' = Tail(serialIn)
  /\ stepper' = startStepper(enableOutputs(Serviced), program[0])
  /\ StartGlobals(program[0])
  /\ state' = STATE_MOVING_PROG
  /\ IdleService /\ NoPrompt
  /\ out' = <<StepEv(1, programCount)>>
  /\ runLog' = <<StepEv(1, programCount)>>
  /\ runMoves' = <<ActiveMove'>>
  /\ UNCHANGED <<progStepIndex, progVars, pc>>

\* case 'R', lines 313-320.
CmdRun ==
  /\ Cmd("R") /\ programCount # 0
  /\ serialIn' = Tail(serialIn)
  /\ progStepIndex' = 0
  /\ stepper' = startStepper(enableOutputs(Serviced), program[0])
  /\ StartGlobals(program[0])
  /\ state' = STATE_MOVING_PROG
  /\ IdleService /\ NoPrompt
  /\ out' = <<StepEv(1, programCount)>>
  /\ runLog' = <<StepEv(1, programCount)>>
  /\ runMoves' = <<ActiveMove'>>
  /\ UNCHANGED <<progVars, pc>>

\* Variant of IdleReply that answers an X in STATE_IDLE as an abort.
IdleReply_AbortAgain(line) ==
  IF line = "X" THEN <<Ev("Aborted")>> ELSE <<>>

\* Lines 344-348: a line no case matches is reported as unknown; 'S' prints
\* the listing, which is no lifecycle message.
IdleReply(line) ==
  IF line = "X" THEN <<Ev("Unknown")>> ELSE <<>>

\* case 'S' and default: print only.
CmdPrintOnly ==
  /\ \E line \in {"S", "X"} : Cmd(line)
  /\ serialIn' = Tail(serialIn)
  /\ stepper' = Serviced
  /\ IdleService /\ NoPrompt
  /\ out' = IdleReply(Head(serialIn))
  /\ runLog' = <<>> /\ runMoves' = <<>>
  /\ UNCHANGED <<state, progStepIndex, progVars, moveVars, pc>>

\* Variant of CmdClear that prints the message and resets nothing.
CmdClear_KeepsCount ==
  /\ Cmd("C")
  /\ serialIn' = Tail(serialIn)
  /\ stepper' = Serviced
  /\ IdleService /\ NoPrompt
  /\ out' = <<Ev("Cleared")>>
  /\ runLog' = <<>> /\ runMoves' = <<>>
  /\ UNCHANGED <<state, progStepIndex, progVars, moveVars, pc>>

\* case 'C'
CmdClear ==
  /\ Cmd("C")
  /\ serialIn' = Tail(serialIn)
  /\ programCount' = 0
  /\ program' = NoEntries
  /\ stepper' = Serviced
  /\ IdleService /\ NoPrompt
  /\ out' = <<Ev("Cleared")>>
  /\ runLog' = <<>> /\ runMoves' = <<>>
  /\ UNCHANGED <<state, progStepIndex, moveVars, pc>>

\* ------------------------------------------- the editor loop of case 'P'
InEditor == pc = "editor"

EditorFrame ==
  /\ stepped' = FALSE /\ stepsSeen' = -1
  /\ UNCHANGED g_const_speed
  /\ UNCHANGED <<state, progStepIndex, moveVars, stepper, elapsed, runLog,
                 runMoves>>

\* A line typed ahead at the main menu is read by the editor: none of them
\* starts with Q, A or D (lines 279, 303-304).
EditorOther ==
  /\ InEditor /\ serialIn # <<>>
  /\ serialIn' = Tail(serialIn)
  /\ out' = <<>>
  /\ EditorFrame /\ NoPrompt /\ lineRead' = Typed(Head(serialIn))
  /\ UNCHANGED <<progVars, pc>>

\* 'Q'
EditorQuit ==
  /\ InEditor /\ serialIn = <<>>
  /\ pc' = "loop"
  /\ out' = <<>>
  /\ EditorFrame /\ NoPrompt /\ lineRead' = Typed("Q")
  /\ UNCHANGED <<progVars, serialIn>>
\* Variant of StoreFull that lets one step more in.
StoreFull_OffByOne == programCount > MAX_STEPS

\* Line 285: the capacity test.
StoreFull == programCount >= MAX_STEPS

\* Variant of StoreStep for "programCount++" placed before the assignment:
\* the step lands one slot further and the slot counted in holds no answer.
StoreStep_IncrementFirst(prog, count, st) ==
  [i \in 0..count |-> IF i = count THEN ZeroStep ELSE prog[i]]

\* Line 289: program[programCount] = promptStep().
StoreStep(prog, count, st) ==
  [i \in 0..count |-> IF i = count THEN st ELSE prog[i]]

\* 'A', lines 285-286
EditorAddFull ==
  /\ InEditor /\ serialIn = <<>>
  /\ StoreFull
  /\ out' = <<Ev("Full")>>
  /\ EditorFrame /\ NoPrompt /\ lineRead' = Typed("A")
  /\ UNCHANGED <<progVars, serialIn, pc>>

\* 'A', lines 288-291
EditorAddFrom(steps) ==
  /\ InEditor /\ serialIn = <<>>
  /\ ~StoreFull
  /\ \E st \in steps :
       /\ ValidStep(st)
       /\ program' = StoreStep(program, programCount, st)
       /\ answered' = st
       /\ lineRead' = Typed("A")
  /\ programCount' = programCount + 1
  /\ out' = <<Ev("StepAdded")>>
  /\ EditorFrame
  /\ UNCHANGED <<serialIn, pc>>

EditorAdd == EditorAddFrom(InputSteps)
\* Variant of DeleteShift whose loop starts one slot late.
DeleteShift_StartsLate(prog, count, idx) ==
  [i \in 0..(count - 2) |-> IF i > idx THEN prog[i + 1] ELSE prog[i]]

\* Line 299: the steps after the deleted one move down by one.
DeleteShift(prog, count, idx) ==
  [i \in 0..(count - 2) |-> IF i >= idx THEN prog[i + 1] ELSE prog[i]]

\* Variant of InvalidIndex that lets the index one past the last step through.
InvalidIndex_OffByOne(idx, count) == idx < 0 \/ idx > count

\* Line 296: the range test on the zero-based index.
InvalidIndex(idx, count) == idx < 0 \/ idx >= count

\* 'D <n>': toInt() gives 0 for text that is not a number.
EditorDelete ==
  /\ InEditor /\ serialIn = <<>>
  /\ \E n \in 0..(MAX_STEPS + 1) :
       LET idx == n - 1
       IN  /\ lineRead' = [line |-> "D", n |-> n]
           /\ IF InvalidIndex(idx, programCount)
              THEN /\ out' = <<Ev("OutOfRange")>>
                   /\ UNCHANGED progVars
              ELSE /\ program' = DeleteShift(program, programCount, idx)
                   /\ programCount' = programCount - 1
                   /\ out' = <<Ev("StepDeleted")>>
  /\ EditorFrame /\ NoPrompt
  /\ UNCHANGED <<serialIn, pc>>

\* Line 294: 'D' with nothing after it.
EditorDeleteUsage ==
  /\ InEditor /\ serialIn = <<>>
  /\ lineRead' = [line |-> "D", n |-> -1]
  /\ out' = <<Ev("Usage")>>
  /\ EditorFrame /\ NoPrompt
  /\ UNCHANGED <<progVars, serialIn, pc>>

\* ---------------------------------------------------------- specification
Next ==
  \/ SendLine
  \/ TimeAdvance
  \/ TickManualDone
  \/ TickProgAdvance
  \/ TickProgComplete
  \/ TickAbort
  \/ TickDiscard
  \/ TickNoInput
  \/ IdleNoInput
  \/ CmdEmptyLine
  \/ CmdManual
  \/ CmdEditor
  \/ CmdRunEmpty
  \/ CmdRun
  \/ CmdPrintOnly
  \/ CmdClear
  \/ EditorOther
  \/ EditorQuit
  \/ EditorAddFull
  \/ EditorAdd
  \/ EditorDelete
  \/ EditorDeleteUsage

Spec == Init /\ [][Next]_vars

TypeOK ==
  /\ state \in State
  /\ programCount \in 0..MAX_STEPS
  /\ progStepIndex \in 0..MAX_STEPS
  /\ pc \in {"loop", "editor"}
  /\ elapsed \in 0..TicksPerSecond
  /\ Len(serialIn) <= MaxQueue

\* The single-move model: manual moves over the whole of MoveSteps, run to
\* completion or aborted; the program store stays empty.
CmdManualAny == CmdManualFrom(MoveSteps)

SendMoveLine == \E line \in {"M", "X"} : Send(line)

NextMove ==
  \/ SendMoveLine
  \/ TimeAdvance
  \/ TickManualDone
  \/ TickAbort
  \/ TickDiscard
  \/ TickNoInput
  \/ IdleNoInput
  \/ CmdManualAny
  \/ CmdPrintOnly

SpecMove == Init /\ [][NextMove]_vars

\* The velocity-profile model: one manual move, any valid step within the
\* profile bounds or the move of 100 steps from 10 to 50 steps/s at
\* 5 steps/s2, from the return of case 'M' until the move is complete.
ScenarioStep == MkStep(TRUE, 100, 10, 50, 5)

ProfileSteps ==
  { MkStep(f, d, s, e, a) :
      f \in BOOLEAN, d \in 1..ProfDist, s \in 1..ProfSpeed,
      e \in 1..ProfSpeed, a \in (-ProfAccel)..ProfAccel }
  \cup {ScenarioStep}

InitProfile ==
  \E st \in ProfileSteps :
    /\ ValidStep(st)
    /\ state = STATE_MOVING_MANUAL
    /\ progStepIndex = 0
    /\ program = NoEntries
    /\ programCount = 0
    /\ g_moving = TRUE
    /\ g_target_dist = st.distance
    /\ g_start_speed = Max(1, st.start_speed)
    /\ g_end_speed = Max(1, st.end_speed)
    /\ g_accel = st.accel
    /\ g_fwd = st.forward
    /\ g_const_speed = FALSE
    /\ stepper = startStepper(enableOutputs(SetupStepper), st)
    /\ elapsed = 0
    /\ serialIn = <<>>
    /\ pc = "loop"
    /\ out = <<Ev("MoveStarted")>>
    /\ stepped = FALSE
    /\ stepsSeen = -1
    /\ answered = st
    /\ lineRead = Typed("M")
    /\ runLog = <<>>
    /\ runMoves = <<>>

NextProfile ==
  \/ TimeAdvance
  \/ TickNoInput
  \/ TickManualDone

SpecProfile == InitProfile /\ [][NextProfile]_vars

\* The progress model: the session with up to MaxProg steps already stored,
\* manual moves and program runs, no "X" ever sent; loop() keeps being
\* called and micros() keeps advancing.
LiveSteps == { MkStep(TRUE, 3, 2, 1, -2), MkStep(FALSE, 2, 1, 2, 1) }

LiveStores ==
  UNION { [0..(n - 1) -> LiveSteps] : n \in 0..MaxProg }

InitLive ==
  /\ state = STATE_IDLE
  /\ progStepIndex = 0
  /\ program \in LiveStores
  /\ programCount = Cardinality(DOMAIN program)
  /\ g_moving = FALSE
  /\ g_target_dist = 0
  /\ g_start_speed = 1
  /\ g_end_speed = 1
  /\ g_accel = 0
  /\ g_fwd = TRUE
  /\ g_const_speed = FALSE
  /\ stepper = SetupStepper
  /\ elapsed = 0
  /\ serialIn = <<>>
  /\ pc = "loop"
  /\ out = <<>>
  /\ stepped = FALSE
  /\ stepsSeen = -1
  /\ answered = ZeroStep
  /\ lineRead = NoLine
  /\ runLog = <<>>
  /\ runMoves = <<>>

SendLiveLine == \E line \in {"M", "R", "S"} : Send(line)

CmdManualLive == CmdManualFrom(LiveSteps)

\* One call of loop() while a move is active.
MovingTick ==
  \/ TickManualDone
  \/ TickProgAdvance
  \/ TickProgComplete
  \/ TickDiscard
  \/ TickNoInput

NextLive ==
  \/ SendLiveLine
  \/ TimeAdvance
  \/ MovingTick
  \/ IdleNoInput
  \/ CmdManualLive
  \/ CmdRunEmpty
  \/ CmdRun
  \/ CmdPrintOnly

SpecLive ==
  /\ InitLive
  /\ [][NextLive]_vars
  /\ WF_vars(TimeAdvance)
  /\ WF_vars(MovingTick)

\* ------------------------------------------------------------ properties
\* The transition read the first waiting line.
ReadLine(line) ==
  /\ serialIn # <<>> /\ Head(serialIn) = line
  /\ serialIn' = Tail(serialIn) \/ (line = "M" /\ serialIn' = <<>>)

\* The transition is a call of loop() that reached the done test of line
\* 206 and found it true / false.
TickDone == state \in Moving /\ stepsSeen' # -1 /\ stepsSeen' >= g_target_dist
TickNotDone == state \in Moving /\ stepsSeen' # -1 /\ stepsSeen' < g_target_dist

\* ------------------------------------------------ the v1.0 sketch
\* The v1.0 firmware, restricted to manual moves at constant speed
\* (accel = 0), run to completion or aborted.  It shares state,
\* g_target_dist and the stepper with the v2.0 model; the variables only
\* v2.0 has, the program store and the editor stay as they are.
V1Dist == 2           \* longest move of the v1.0 model
V1Speed == 2          \* highest speed of the v1.0 model

v2Only ==
  <<progStepIndex, program, programCount, g_moving, g_start_speed,
    g_end_speed, g_accel, g_fwd, pc, runLog, runMoves>>

\* The speeds computeNewSpeed() can arrive at, as squares.
V1NewSpeeds == { k * k : k \in 1..V1Speed }

\* computeNewSpeed(): a new speed from the position relative to the target,
\* the acceleration and maxSpeed; the direction is that of the target seen
\* from the current position, and the motor stops when the target is
\* reached.  v stands for the value the acceleration algorithm arrives at.
computeNewSpeed(st, v) ==
  IF st.currentPos = st.targetPos
  THEN [st EXCEPT !.speedSq = 0]
  ELSE [st EXCEPT !.speedSq = Min(v, st.maxSpeedSq),
                  !.dirCW = st.targetPos > st.currentPos]

\* run(): calls runSpeed(), which steps at the current speed and direction
\* if a step is due and currentPosition differs from targetPosition, then
\* computeNewSpeed() after the step.
run(st, e, v) ==
  IF StepDue(st, e) /\ st.currentPos # st.targetPos
  THEN computeNewSpeed(runSpeed(st, e), v)
  ELSE st

\* setup() of v1.0: setMaxSpeed(ABS_MAX_SPEED), setAcceleration(50),
\* disableOutputs().  The acceleration only enters through the values
\* computeNewSpeed() arrives at.
SetupStepperV1 ==
  disableOutputs(setMaxSpeed(NewStepper, ABS_MAX_SPEED * ABS_MAX_SPEED))

InitV1 ==
  /\ state = STATE_IDLE
  /\ progStepIndex = 0
  /\ program = NoEntries
  /\ programCount = 0
  /\ g_moving = FALSE
  /\ g_target_dist = 0
  /\ g_start_speed = 1
  /\ g_end_speed = 1
  /\ g_accel = 0
  /\ g_fwd = TRUE
  /\ g_const_speed = FALSE
  /\ stepper = SetupStepperV1
  /\ elapsed = 0
  /\ serialIn = <<>>
  /\ pc = "loop"
  /\ out = <<>>
  /\ stepped = FALSE
  /\ stepsSeen = -1
  /\ answered = ZeroStep
  /\ lineRead = NoLine
  /\ runLog = <<>>
  /\ runMoves = <<>>

\* The v1.0 Step of a constant-speed move: promptStep() of v1.0 with the
\* answer 0 for the acceleration.
V1Steps ==
  [forward : BOOLEAN, distance : 1..V1Dist, speed : 1..V1Speed, accel : {0}]

\* startStep() of v1.0, the branch for accel == 0.
startStepV1(s0, st) ==
  LET s1 == setCurrentPosition(s0, 0)
      s2 == setMaxSpeed(s1, st.speed * st.speed)
  IN  setSpeed(s2, st.speed * st.speed, st.forward)

\* loop() of v1.0, "always service stepper motion": runSpeed() in
\* constant-speed mode, run() otherwise, in every state.
V1Serviced(v) ==
  IF g_const_speed THEN runSpeed(stepper, elapsed) ELSE run(stepper, elapsed, v)

V1Done(v) ==
  IF g_const_speed
  THEN Abs(V1Serviced(v).currentPos) >= g_target_dist
  ELSE V1Serviced(v).targetPos - V1Serviced(v).currentPos = 0

\* What one call of loop() of v1.0 does besides its own branch.
V1Tick(v) ==
  /\ elapsed' = IF V1Serviced(v).currentPos # stepper.currentPos
                THEN 0 ELSE elapsed
  /\ stepped' = (V1Serviced(v).currentPos # stepper.currentPos)
  /\ answered' = ZeroStep
  /\ UNCHANGED v2Only

\* loop() of v1.0, the constant-speed move is finished.
V1TickDone ==
  /\ state = STATE_MOVING_MANUAL
  /\ \E v \in V1NewSpeeds :
       /\ V1Done(v)
       /\ stepper' = disableOutputs(V1Serviced(v))
       /\ stepsSeen' = Abs(V1Serviced(v).currentPos)
       /\ V1Tick(v)
  /\ g_const_speed' = FALSE
  /\ out' = <<Ev("MoveComplete")>>
  /\ state' = STATE_IDLE
  /\ lineRead' = NoLine
  /\ UNCHANGED <<g_target_dist, serialIn>>

\* loop() of v1.0, "X" during a constant-speed move.
V1TickAbort ==
  /\ state = STATE_MOVING_MANUAL /\ g_const_speed
  /\ serialIn # <<>> /\ Head(serialIn) = "X"
  /\ \E v \in V1NewSpeeds :
       /\ ~V1Done(v)
       /\ stepper' = disableOutputs(setSpeed(V1Serviced(v), 0, stepper.dirCW))
       /\ stepsSeen' = Abs(V1Serviced(v).currentPos)
       /\ V1Tick(v)
  /\ serialIn' = Tail(serialIn)
  /\ g_const_speed' = FALSE
  /\ out' = <<Ev("Aborted")>>
  /\ state' = STATE_IDLE
  /\ lineRead' = Typed("X")
  /\ UNCHANGED g_target_dist

\* loop() of v1.0, another line during a move.
V1TickDiscard ==
  /\ state = STATE_MOVING_MANUAL
  /\ serialIn # <<>> /\ Head(serialIn) # "X"
  /\ \E v \in V1NewSpeeds :
       /\ ~V1Done(v)
       /\ stepper' = V1Serviced(v)
       /\ stepsSeen' = Abs(V1Serviced(v).currentPos)
       /\ V1Tick(v)
  /\ serialIn' = Tail(serialIn)
  /\ out' = <<>>
  /\ lineRead' = Typed(Head(serialIn))
  /\ UNCHANGED <<state, g_const_speed, g_target_dist>>

\* loop() of v1.0, a move in progress and nothing to read.
V1TickNoInput ==
  /\ state = STATE_MOVING_MANUAL
  /\ serialIn = <<>>
  /\ \E v \in V1NewSpeeds :
       /\ ~V1Done(v)
       /\ stepper' = V1Serviced(v)
       /\ stepsSeen' = Abs(V1Serviced(v).currentPos)
       /\ V1Tick(v)
  /\ out' = <<>>
  /\ lineRead' = NoLine
  /\ UNCHANGED <<state, g_const_speed, g_target_dist, serialIn>>

\* loop() of v1.0 in STATE_IDLE with nothing to read: the motion service,
\* then the return at the availability test.
V1IdleNoInput ==
  /\ state = STATE_IDLE
  /\ serialIn = <<>>
  /\ \E v \in V1NewSpeeds :
       /\ stepper' = V1Serviced(v)
       /\ V1Tick(v)
  /\ stepsSeen' = -1
  /\ out' = <<>>
  /\ lineRead' = NoLine
  /\ UNCHANGED <<state, g_const_speed, g_target_dist, serialIn>>

\* case 'M' of v1.0 with the acceleration answered 0.  The prompts read
\* and reject the lines still waiting in the buffer.
V1CmdManual ==
  /\ state = STATE_IDLE
  /\ serialIn # <<>> /\ Head(serialIn) = "M"
  /\ \E v \in V1NewSpeeds, st \in V1Steps :
       /\ stepper' = startStepV1(enableOutputs(V1Serviced(v)), st)
       /\ g_target_dist' = st.distance
       /\ V1Tick(v)
  /\ g_const_speed' = TRUE
  /\ serialIn' = <<>>
  /\ state' = STATE_MOVING_MANUAL
  /\ stepsSeen' = -1
  /\ out' = <<Ev("MoveStarted")>>
  /\ lineRead' = Typed("M")

\* The default case of v1.0: "X" typed in STATE_IDLE is an unknown command.
V1CmdUnknown ==
  /\ state = STATE_IDLE
  /\ serialIn # <<>> /\ Head(serialIn) = "X"
  /\ \E v \in V1NewSpeeds :
       /\ stepper' = V1Serviced(v)
       /\ V1Tick(v)
  /\ serialIn' = Tail(serialIn)
  /\ stepsSeen' = -1
  /\ out' = <<Ev("Unknown")>>
  /\ lineRead' = Typed("X")
  /\ UNCHANGED <<state, g_const_speed, g_target_dist>>

NextV1 ==
  \/ SendMoveLine
  \/ TimeAdvance
  \/ V1TickDone
  \/ V1TickAbort
  \/ V1TickDiscard
  \/ V1TickNoInput
  \/ V1IdleNoInput
  \/ V1CmdManual
  \/ V1CmdUnknown

SpecV1 == InitV1 /\ [][NextV1]_vars

C2_ProgramStepDone ==
  [][ (TickDone /\ state = STATE_MOVING_PROG)
        => IF progStepIndex + 1 < programCount
           THEN /\ state' = STATE_MOVING_PROG
                /\ progStepIndex' = progStepIndex + 1
                /\ ActiveMove' = program[progStepIndex + 1]
                /\ g_moving' = TRUE
                /\ stepper'.currentPos = 0
                /\ stepper'.enabled = TRUE
                /\ out' = <<StepEv(progStepIndex + 2, programCount)>>
           ELSE /\ state' = STATE_IDLE
                /\ g_moving' = FALSE
                /\ stepper'.enabled = FALSE
                /\ out' = <<Ev("ProgramComplete")>> ]_vars

\* The second step of a program has just been started after the first one
\* moved the motor.
C2_Witness ==
  /\ state = STATE_MOVING_PROG /\ progStepIndex = 1
  /\ out = <<StepEv(2, programCount)>>
  /\ stepsSeen >= 1
  /\ stepper.currentPos = 0 /\ stepper.enabled

\* C3: "R" in STATE_IDLE with nothing stored prints the empty-program
\* message and starts nothing; with a stored program it starts program[0],
\* enables the outputs and enters STATE_MOVING_PROG with index 0.
C3_RunProgram ==
  [][ (InIdle /\ ReadLine("R"))
        => IF programCount = 0
           THEN /\ out' = <<Ev("ProgramEmpty")>>
                /\ state' = STATE_IDLE
                /\ g_moving' = FALSE
                /\ stepper'.enabled = FALSE
           ELSE /\ state' = STATE_MOVING_PROG
                /\ progStepIndex' = 0
                /\ ActiveMove' = program[0]
                /\ g_moving' = TRUE
                /\ stepper'.currentPos = 0
                /\ stepper'.enabled = TRUE ]_vars

\* A stored program of at least two steps has just been started.
C3_Witness ==
  /\ state = STATE_MOVING_PROG /\ progStepIndex = 0
  /\ out = <<StepEv(1, programCount)>>
  /\ programCount >= 2
  /\ ActiveMove = program[0]

\* C4: "M" in STATE_IDLE makes the answers of the prompts the active move
\* (position 0, target and direction of the step), enables the outputs and
\* enters STATE_MOVING_MANUAL.
C4_ManualMove ==
  [][ (InIdle /\ ReadLine("M"))
        => /\ ActiveMove' = answered'
           /\ g_target_dist' = answered'.distance
           /\ g_fwd' = answered'.forward
           /\ g_moving' = TRUE
           /\ stepper'.currentPos = 0
           /\ stepper'.dirCW = answered'.forward
           /\ stepper'.enabled = TRUE
           /\ state' = STATE_MOVING_MANUAL ]_vars

\* A backward manual move started after a forward one left the motor away
\* from position 0.
C4_Witness ==
  /\ state = STATE_MOVING_MANUAL
  /\ out = <<Ev("MoveStarted")>>
  /\ answered.forward = FALSE /\ answered.distance >= 1
  /\ stepper.currentPos = 0 /\ stepper.dirCW = FALSE

\* C5: the tick of a manual move on which the distance is reached disables
\* the outputs, prints the completion once and returns to STATE_IDLE; the
\* completion is printed on no other transition.
C5_ManualDone ==
  [][ /\ (TickDone /\ state = STATE_MOVING_MANUAL)
           => /\ stepper'.enabled = FALSE
              /\ out' = <<Ev("MoveComplete")>>
              /\ state' = STATE_IDLE
      /\ Emitted(out', "MoveComplete")
           => /\ state = STATE_MOVING_MANUAL
              /\ stepsSeen' = g_target_dist
              /\ CountEv(out', "MoveComplete") = 1 ]_vars

\* A manual move of two steps has just completed.
C5_Witness ==
  /\ out = <<Ev("MoveComplete")>>
  /\ state = STATE_IDLE
  /\ stepsSeen = 2 /\ g_target_dist = 2
  /\ ~stepper.enabled

\* C6: whenever the session is in STATE_IDLE the outputs are disabled.
C6_IdleDisabled == state = STATE_IDLE => ~stepper.enabled

\* STATE_IDLE reached by the abort of a program step.
C6_Witness ==
  /\ state = STATE_IDLE
  /\ Len(runLog) >= 2 /\ runLog[Len(runLog)] = Ev("Aborted")
  /\ ~stepper.enabled

\* C7: a step is taken only by a tick of an active move that has not yet
\* reached its distance; no tick in STATE_IDLE takes a step.
C7_NoStepWhenDoneOrIdle ==
  [][ stepped'
        => /\ state \in Moving
           /\ g_moving
           /\ Abs(stepper.currentPos) < g_target_dist ]_vars

\* A tick in STATE_IDLE after a completed move, the stepper still holding
\* the speed of that move and a step interval having passed.
C7_Witness ==
  /\ state = STATE_IDLE /\ pc = "loop"
  /\ stepper.speedSq > 0 /\ elapsed = TicksPerSecond
  /\ Abs(stepper.currentPos) = g_target_dist /\ g_target_dist > 0
  /\ ~stepped

\* C8: a tick of an active move advances steps_done by one or not at all,
\* by one exactly when runSpeed() stepped; between the ticks of one move
\* the position does not change.
C8_OneStepPerTick ==
  [][ /\ (state \in Moving /\ stepsSeen' # -1)
           => /\ stepsSeen' - Abs(stepper.currentPos) \in {0, 1}
              /\ stepped' <=> (stepsSeen' = Abs(stepper.currentPos) + 1)
              /\ (state' = state /\ progStepIndex' = progStepIndex)
                    => Abs(stepper'.currentPos) = stepsSeen'
      /\ (state \in Moving /\ stepsSeen' = -1)
           => stepper'.currentPos = stepper.currentPos ]_vars

\* The second step of a two-step move has just been taken.
C8_Witness ==
  /\ stepped /\ stepsSeen = 2
  /\ g_target_dist = 2

\* The transition printed one of the messages that follow a true done test.
DoneReported(o) ==
  Emitted(o, "MoveComplete") \/ Emitted(o, "StepStart") \/ Emitted(o, "ProgramComplete")

\* C9: for every valid step, whatever its speeds and acceleration, a tick of
\* the move reports done exactly when steps_done equals the distance, and
\* steps_done of an active move is below the distance before every tick, so
\* that tick is the first one on which the distance is reached.
C9_DoneAtDistance ==
  [][ /\ state \in Moving => Abs(stepper.currentPos) < g_target_dist
      /\ (state \in Moving /\ stepsSeen' # -1)
           => /\ stepsSeen' <= g_target_dist
              /\ DoneReported(out') <=> (stepsSeen' = g_target_dist) ]_vars

\* A ramp up has completed at its distance with the speed of its last step
\* still below end_speed.
C9_Witness ==
  /\ out = <<Ev("MoveComplete")>>
  /\ stepsSeen = g_target_dist /\ g_target_dist >= 2
  /\ g_accel > 0
  /\ stepper.speedSq < g_end_speed * g_end_speed

\* C10: when a program run prints its completion, the run has printed
\* [STEP 1/n] .. [STEP n/n] in this order and nothing else before the one
\* completion message, and the moves it started are program[0..n-1] in
\* stored order; during the run the messages so far are [STEP 1/n] ..
\* [STEP i+1/n].
C10_ProgramRoundTrip ==
  /\ Emitted(out, "ProgramComplete")
       => /\ Len(runLog) = programCount + 1
          /\ \A k \in 1..programCount : runLog[k] = StepEv(k, programCount)
          /\ runLog[programCount + 1] = Ev("ProgramComplete")
          /\ Len(runMoves) = programCount
          /\ \A k \in 1..programCount : runMoves[k] = program[k - 1]
  /\ state = STATE_MOVING_PROG
       => /\ Len(runLog) = progStepIndex + 1
          /\ \A k \in 1..(progStepIndex + 1) : runLog[k] = StepEv(k, programCount)
          /\ Len(runMoves) = progStepIndex + 1
          /\ \A k \in 1..(progStepIndex + 1) : runMoves[k] = program[k - 1]

\* A program of three steps, not all alike, has just completed.
C10_Witness ==
  /\ Emitted(out, "ProgramComplete")
  /\ programCount = 3
  /\ program[0] # program[1]
  /\ Len(runLog) = 4

\* The commands that open or are an edit of the program store: 'P' (the
\* editor with its A and D) and 'C'.
EditLines == {"P", "C"}

C12_FullStoreRejectsAdd ==
  [][/\ programCount' <= MAX_STEPS
     /\ DOMAIN program' = 0..(programCount' - 1)
     /\ (InEditor /\ lineRead'.line = "A" /\ programCount >= MAX_STEPS)
          => /\ out' = <<Ev("Full")>>
             /\ answered' = ZeroStep
             /\ UNCHANGED progVars]_vars

\* An 'A' has just been refused on a store of five steps.
C12_Witness ==
  /\ pc = "editor"
  /\ lineRead.line = "A"
  /\ out = <<Ev("Full")>>
  /\ programCount = MAX_STEPS

\* C13: an 'A' read by the editor when the store holds fewer than 5 steps
\* appends the step promptStep() returned: the count grows by one, the new
\* last entry is that step, and every earlier entry keeps index and value.
C13_AddAppends ==
  [][(InEditor /\ lineRead'.line = "A" /\ programCount < MAX_STEPS)
        => /\ programCount' = programCount + 1
           /\ DOMAIN program' = 0..programCount
           /\ ValidStep(answered')
           /\ program'[programCount' - 1] = answered'
           /\ \A i \in 0..(programCount - 1) : program'[i] = program[i]
           /\ out' = <<Ev("StepAdded")>>]_vars

\* A step has just been appended behind two stored steps, one of them
\* different from it.
C13_Witness ==
  /\ pc = "editor"
  /\ lineRead.line = "A"
  /\ out = <<Ev("StepAdded")>>
  /\ programCount = 3
  /\ program[2] = answered
  /\ program[0] # program[2]

\* The editor has just read "D <n>" with n - 1 inside / outside the store.
DeleteInRange ==
  /\ InEditor /\ lineRead'.line = "D"
  /\ lineRead'.n - 1 >= 0 /\ lineRead'.n - 1 < programCount

DeleteOutOfRange ==
  /\ InEditor /\ lineRead'.line = "D" /\ lineRead'.n # -1
  /\ (lineRead'.n - 1 < 0 \/ lineRead'.n - 1 >= programCount)

\* C14: "D <n>" with index i = n - 1 inside the store removes exactly the
\* step at i: the count drops by one, the steps before i keep index and
\* value, the steps after i move down by one.
C14_DeleteRemovesOne ==
  [][DeleteInRange
        => LET i == lineRead'.n - 1
           IN  /\ programCount' = programCount - 1
               /\ DOMAIN program' = 0..(programCount - 2)
               /\ \A j \in 0..(i - 1) : program'[j] = program[j]
               /\ \A j \in i..(programCount - 2) : program'[j] = program[j + 1]
               /\ out' = <<Ev("StepDeleted")>>]_vars

\* The middle step of three has just been deleted, the two that remain
\* being different steps.
C14_Witness ==
  /\ pc = "editor"
  /\ lineRead = [line |-> "D", n |-> 2]
  /\ out = <<Ev("StepDeleted")>>
  /\ programCount = 2
  /\ program[0] # program[1]

C16_ClearEmpties ==
  [][/\ (pc = "loop" /\ state = STATE_IDLE /\ lineRead'.line = "C")
          => /\ programCount' = 0
             /\ program' = NoEntries
             /\ out' = <<Ev("Cleared")>>
     /\ (pc = "loop" /\ state = STATE_IDLE /\ lineRead'.line = "R"
           /\ programCount = 0)
          => /\ out' = <<Ev("ProgramEmpty")>>
             /\ state' = STATE_IDLE
             /\ ~g_moving'
             /\ UNCHANGED progVars]_vars

\* A 'C' has just been carried out.
C16_Witness ==
  /\ lineRead.line = "C"
  /\ out = <<Ev("Cleared")>>
  /\ programCount = 0
  /\ state = STATE_IDLE

\* C17: the editor runs only in STATE_IDLE, and an 'A' or 'D' read by the
\* editor or a 'C' read at the menu, carried out or refused, leaves the
\* session in STATE_IDLE with no active move, the active-move values and
\* the position as they were, no step taken and the outputs disabled.
C17_EditKeepsIdle ==
  [][/\ pc' = "editor" => state' = STATE_IDLE
     /\ ((InEditor /\ lineRead'.line \in {"A", "D"})
           \/ (pc = "loop" /\ lineRead'.line = "C" /\ out' # <<>>))
          => /\ state' = STATE_IDLE
             /\ ~g_moving'
             /\ UNCHANGED moveVars
             /\ stepper'.currentPos = stepper.currentPos
             /\ ~stepped'
             /\ ~stepper'.enabled]_vars

\* A 'C' has just been carried out after an earlier move, the outputs
\* being off.
C17_Witness ==
  /\ lineRead.line = "C"
  /\ out = <<Ev("Cleared")>>
  /\ g_target_dist > 0
  /\ state = STATE_IDLE /\ ~g_moving
  /\ ~stepper.enabled

\* The steps_done values the profile is looked at: well past the distance
\* of the move.
StepsDoneValues == 0..Max(ProfStepsDone, 3 * g_target_dist)

\* C18: with accel = 0 or start speed = end speed, computeSpeed() returns
\* the start speed for every steps_done, those below the distance included,
\* and that is the speed the stepper is given throughout the move.
C18_ConstantProfile ==
  (g_accel = 0 \/ g_start_speed = g_end_speed)
    => /\ \A k \in StepsDoneValues :
            computeSpeed(k) = g_start_speed * g_start_speed
       /\ stepper.speedSq = g_start_speed * g_start_speed

\* A move with accel = 0 and different start and end speeds has stepped
\* twice at its start speed.
C18_Witness ==
  /\ g_accel = 0 /\ g_start_speed # g_end_speed
  /\ g_moving /\ stepped /\ stepsSeen = 2
  /\ stepper.speedSq = g_start_speed * g_start_speed

\* C19 as stated: with accel > 0 the speeds for steps_done = 0, 1, 2, ...
\* never decrease and never exceed the end speed, and the move from 10 to
\* 50 steps/s at 5 steps/s2 gives 50 at steps_done = 160.
C19_AccelCapsAt160 ==
  g_accel > 0
    => /\ \A k \in StepsDoneValues :
            /\ computeSpeed(k) <= computeSpeed(k + 1)
            /\ computeSpeed(k) <= g_end_speed * g_end_speed
       /\ ActiveMove = ScenarioStep => computeSpeed(160) = 50 * 50

\* C19, amended: with accel > 0 the speeds for steps_done = 0, 1, 2, ...
\* never decrease and never exceed the end speed; the move from 10 to 50
\* steps/s at 5 steps/s2 gives 10 at steps_done = 0, the root of 1700
\* (about 41.2) at 160 and reaches 50 at steps_done = 240.
C19_AccelProfile ==
  g_accel > 0
    => /\ \A k \in StepsDoneValues :
            /\ computeSpeed(k) <= computeSpeed(k + 1)
            /\ computeSpeed(k) <= g_end_speed * g_end_speed
       /\ ActiveMove = ScenarioStep
            => /\ computeSpeed(0) = 10 * 10
               /\ computeSpeed(160) = 1700
               /\ computeSpeed(239) < 50 * 50
               /\ computeSpeed(240) = 50 * 50

\* The move from 10 to 50 steps/s at 5 steps/s2 is under way, its speed
\* above 10 and still below 50.
C19_Witness ==
  /\ ActiveMove = ScenarioStep
  /\ g_moving /\ stepped
  /\ stepper.speedSq > 10 * 10
  /\ stepper.speedSq < 50 * 50

\* C20: with accel < 0 the speeds for steps_done = 0, 1, 2, ... never
\* increase and never drop below max(end speed, 1), also where
\* start_speed^2 + 2 * accel * steps_done is negative.
C20_DecelProfile ==
  g_accel < 0
    => \A k \in StepsDoneValues :
         /\ computeSpeed(k + 1) <= computeSpeed(k)
         /\ computeSpeed(k) >= Max(g_end_speed * g_end_speed, 1)

\* A decelerating move has stepped at a position where
\* start_speed^2 + 2 * accel * steps_done is negative.
C20_Witness ==
  /\ g_accel < 0 /\ g_start_speed > g_end_speed
  /\ g_moving /\ stepped
  /\ g_start_speed * g_start_speed + 2 * g_accel * (stepsSeen - 1) < 0
  /\ stepper.speedSq = g_end_speed * g_end_speed

\* C21: for every move that can be active and every steps_done,
\* computeSpeed() returns at least 1 step/s, in the constant branch and in
\* the ramp branch, and the speed the stepper holds during the move is
\* never below 1.
C21_SpeedAtLeastOne ==
  /\ \A k \in StepsDoneValues : computeSpeed(k) >= 1
  /\ g_moving => stepper.speedSq >= 1

\* A ramp down to an end speed of 1 has stepped at a position where the
\* kinematic formula gives no speed at all.
C21_Witness ==
  /\ g_accel < 0 /\ g_start_speed > 1 /\ g_end_speed = 1
  /\ g_moving /\ stepped
  /\ g_start_speed * g_start_speed + 2 * g_accel * (stepsSeen - 1) <= 0
  /\ stepper.speedSq = 1

\* C22 as stated: when an "X" is waiting in the serial buffer while a move
\* is active, the next call of loop() ends with the session in STATE_IDLE,
\* the abort message printed and the outputs disabled.
C22_AbortOnNextTick ==
  [][(InMove /\ serialIn # <<>> /\ Head(serialIn) = "X" /\ stepsSeen' # -1)
        => /\ state' = STATE_IDLE
           /\ Emitted(out', "Aborted")
           /\ ~stepper'.enabled]_vars

C24_AbortIdempotent ==
  [][(pc = "loop" /\ state = STATE_IDLE /\ lineRead'.line = "X")
        => /\ state' = STATE_IDLE /\ pc' = "loop"
           /\ ~g_moving'
           /\ ~stepper'.enabled
           /\ stepper' = stepper
           /\ UNCHANGED progVars
           /\ UNCHANGED moveVars
           /\ ~Emitted(out', "Aborted")
           /\ out' = <<Ev("Unknown")>>]_vars

\* An "X" has just been read in STATE_IDLE after the abort of a move, the
\* store holding steps.
C24_Witness ==
  /\ state = STATE_IDLE
  /\ lineRead.line = "X"
  /\ out = <<Ev("Unknown")>>
  /\ stepper.speedSq = 0
  /\ g_target_dist > 0 /\ Abs(stepper.currentPos) < g_target_dist
  /\ programCount > 0

\* C25 as stated: an "X" read while the motor is running ramps the motor
\* down: after the tick that reads it the stepper still has a speed, lower
\* than before, instead of none at all.
C25_AbortRampsDown ==
  [][(InMove /\ lineRead'.line = "X" /\ Serviced.speedSq > 1)
        => /\ stepper'.speedSq > 0
           /\ stepper'.speedSq < Serviced.speedSq]_vars

\* C26: with loop() called again and again, time advancing and no "X"
\* sent, every manual move that was started prints its completion and every
\* program run that was started prints the program's completion, the
\* session being back in STATE_IDLE.
C26_MovesComplete ==
  /\ (state = STATE_MOVING_MANUAL)
       ~> (state = STATE_IDLE /\ Emitted(out, "MoveComplete"))
  /\ (state = STATE_MOVING_PROG)
       ~> (state = STATE_IDLE /\ Emitted(out, "ProgramComplete"))

\* A program run of two steps, the ramp down to 1 step/s among them, has
\* completed.
C26_Witness ==
  /\ state = STATE_IDLE
  /\ Emitted(out, "ProgramComplete")
  /\ programCount = 2
  /\ \E i \in DOMAIN program : program[i].accel < 0
  /\ Len(runMoves) = 2

\* The ranges C27 names.
InClaimedRange(st) ==
  /\ st.distance >= 1 /\ st.distance <= 999999
  /\ st.start_speed > 0 /\ st.start_speed <= 1000
  /\ st.end_speed > 0 /\ st.end_speed <= 1000
  /\ st.accel >= -1000 /\ st.accel <= 1000

\* C27: every step promptStep() hands over, every step stored in the
\* program and the move that is active have a distance in 1..999999, start
\* and end speeds above 0 and at most 1000, and an acceleration of
\* magnitude at most 1000.
C27_SpecsInRange ==
  /\ \A i \in DOMAIN program : InClaimedRange(program[i])
  /\ g_moving => InClaimedRange(ActiveMove)
  /\ answered # ZeroStep => InClaimedRange(answered)

\* A manual move has just been started from typed answers while the store
\* holds two steps.
C27_Witness ==
  /\ state = STATE_MOVING_MANUAL /\ g_moving
  /\ answered # ZeroStep /\ ActiveMove = answered
  /\ programCount = 2

\* C28 as stated: for every valid step, the speed the stepper is commanded
\* at the beginning of the move (steps_done = 0) is the start speed.
C28_StartsAtStartSpeed ==
  (g_moving /\ stepper.currentPos = 0)
    => /\ computeSpeed(0) = g_start_speed * g_start_speed
       /\ stepper.speedSq = g_start_speed * g_start_speed

C30_StepWhenDue ==
  [][(InMove /\ g_moving /\ stepsSeen' # -1)
        => LET vSq == computeSpeed(Abs(stepper.currentPos))
               due == elapsed * elapsed * vSq >= TicksPerSecond * TicksPerSecond
           IN  /\ stepped' <=> due
               /\ stepped' => /\ stepsSeen' = Abs(stepper.currentPos) + 1
                              /\ elapsed' = 0
               /\ ~stepped' => /\ stepsSeen' = Abs(stepper.currentPos)
                               /\ elapsed' = elapsed]_vars

\* A call of loop() during a move at 1 step/s has just returned without a
\* step, half a second after the last one.
C30_Witness ==
  /\ state \in Moving /\ g_moving
  /\ stepsSeen # -1 /\ ~stepped
  /\ stepper.speedSq = 1
  /\ elapsed > 0 /\ elapsed < TicksPerSecond

\* C31: every step of a move goes in the direction of its specification:
\* a Forward move only increases the position, a Backward move only
\* decreases it, and the direction does not change within one move, also
\* in a program that holds steps of both directions.
C31_StepsFollowDirection ==
  [][ /\ (state \in Moving /\ stepsSeen' # -1)
           => /\ Serviced.currentPos - stepper.currentPos
                   = IF stepped' THEN (IF g_fwd THEN 1 ELSE -1) ELSE 0
              /\ g_fwd => Serviced.currentPos >= 0
              /\ ~g_fwd => Serviced.currentPos <= 0
      /\ state = STATE_MOVING_PROG
           => g_fwd = program[progStepIndex].forward
      /\ (state \in Moving /\ state' = state /\ progStepIndex' = progStepIndex)
           => g_fwd' = g_fwd ]_vars

\* The first step of a Backward program step has been taken right after a
\* Forward program step.
C31_Witness ==
  /\ state = STATE_MOVING_PROG /\ progStepIndex = 1
  /\ program[0].forward /\ ~program[1].forward
  /\ stepped /\ stepper.currentPos = -1

\* C32: whenever a program is running, the program index is below the
\* program count and the count is at most MAX_STEPS, so the move in
\* progress was started from a slot of the stored program.
C32_IndexInProgram ==
  state = STATE_MOVING_PROG
     => /\ 0 <= progStepIndex /\ progStepIndex < programCount
        /\ programCount <= MAX_STEPS
        /\ progStepIndex \in DOMAIN program

\* The last step of a full program is running.
C32_Witness ==
  /\ state = STATE_MOVING_PROG
  /\ programCount = MAX_STEPS /\ progStepIndex = MAX_STEPS - 1
  /\ ActiveMove = program[progStepIndex]

\* C33: at every tick boundary g_moving is true exactly when the state is
\* STATE_MOVING_MANUAL or STATE_MOVING_PROG, and exactly when the driver
\* outputs are enabled.
C33_MoveNotionsAgree ==
  /\ g_moving <=> state \in Moving
  /\ g_moving <=> stepper.enabled

\* The second step of a program is in progress: its predecessor's
\* completion disabled the outputs and startStep enabled them again.
C33_Witness ==
  /\ state = STATE_MOVING_PROG /\ progStepIndex = 1
  /\ g_moving /\ stepper.enabled
  /\ stepper.currentPos # 0

\* C34: for every valid step and every steps_done >= 0 the commanded speed
\* lies between min(start_speed, end_speed) and max(start_speed, end_speed),
\* hence within 1..ABS_MAX_SPEED and not above the maximum speed startStep
\* configured; the speed the stepper holds during the move obeys the same
\* limits.
C34_SpeedBetweenEnds ==
  LET lo == Min(g_start_speed, g_end_speed)
      hi == Max(g_start_speed, g_end_speed)
  IN  /\ 1 <= lo /\ hi <= ABS_MAX_SPEED
      /\ \A k \in StepsDoneValues :
            /\ lo * lo <= computeSpeed(k)
            /\ computeSpeed(k) <= hi * hi
      /\ (g_moving /\ stepsSeen # -1)
            => /\ lo * lo <= stepper.speedSq
               /\ stepper.speedSq <= hi * hi

\* A step has been taken at the end speed by a move whose acceleration is
\* positive although its end speed is below its start speed.
C34_Witness ==
  /\ g_moving /\ stepped
  /\ g_accel > 0 /\ g_end_speed < g_start_speed
  /\ stepper.speedSq = g_end_speed * g_end_speed

\* C35: starting, running, completing or aborting a manual move or a
\* program never changes the program store: the count and every stored
\* entry are the same after the transition as before it.
C35_MovesKeepStore ==
  [][ (state \in Moving \/ state' \in Moving)
         => /\ programCount' = programCount
            /\ program' = program ]_vars

\* A run of a two-step program has just completed with both entries still
\* in the store.
C35_Witness ==
  /\ state = STATE_IDLE /\ out = <<Ev("ProgramComplete")>>
  /\ programCount = 2 /\ Len(runMoves) = 2
  /\ program[0] # program[1]

\* C36: while a move is active the steps done lie between 0 and the target
\* distance at every tick boundary, a move that has been reported done
\* stands exactly at its distance, and every move, a program step after the
\* first included, starts from steps_done = 0.
C36_NoOvershoot ==
  /\ state \in Moving
        => /\ 0 <= Abs(stepper.currentPos)
           /\ Abs(stepper.currentPos) <= g_target_dist
  /\ (state = STATE_IDLE /\ DoneReported(out))
        => Abs(stepper.currentPos) = g_target_dist
  /\ (Emitted(out, "MoveStarted") \/ Emitted(out, "StepStart"))
        => stepper.currentPos = 0

\* The second step of a program has just been started, at position 0,
\* after a first step that ran Backward to its distance.
C36_Witness ==
  /\ state = STATE_MOVING_PROG /\ progStepIndex = 1
  /\ out = <<StepEv(2, programCount)>>
  /\ stepsSeen = program[0].distance /\ ~program[0].forward
  /\ stepper.currentPos = 0

\* C37: after a program has been aborted at step i the session is idle
\* with the steps 0..i the only ones started, none of the steps i+1..N-1
\* is started and no completion is printed for that run; a run started
\* after the abort begins at program[0] with index 0.
C37_AbortEndsRun ==
  [][ /\ Emitted(runLog', "Aborted")
         => /\ state' = STATE_IDLE /\ ~g_moving'
            /\ ~Emitted(runLog', "ProgramComplete")
            /\ Len(runMoves') = progStepIndex' + 1
            /\ CountEv(runLog', "StepStart") = progStepIndex' + 1
            /\ runLog'[Len(runLog')] = Ev("Aborted")
      /\ (Emitted(runLog, "Aborted") /\ ~Emitted(out', "Aborted"))
         => \/ UNCHANGED <<state, progStepIndex, runLog, runMoves, moveVars>>
            \/ /\ InIdle /\ runLog' = <<>> /\ runMoves' = <<>>
               /\ state' # STATE_MOVING_PROG
            \/ /\ InIdle /\ ReadLine("R")
               /\ state' = STATE_MOVING_PROG /\ progStepIndex' = 0
               /\ ActiveMove' = program[0]
               /\ runLog' = <<StepEv(1, programCount)>>
               /\ runMoves' = <<program[0]>> ]_vars

\* A program of three steps has been aborted during its second step.
C37_Witness ==
  /\ state = STATE_IDLE /\ out = <<Ev("Aborted")>>
  /\ programCount = 3 /\ progStepIndex = 1
  /\ runLog = <<StepEv(1, 3), StepEv(2, 3), Ev("Aborted")>>

\* C38: while a move is active, a line other than X is consumed and
\* discarded on the tick that reads it: the tick prints nothing, leaves
\* the state, the parameters of the move, the program index and the store
\* as they were, moves the motor only as the motion service of that tick
\* does, and the line is no longer in the receive buffer afterwards.
C38_OtherLinesDiscarded ==
  [][ (InMove /\ lineRead'.line \notin {"X", "none"})
         => /\ lineRead'.line = Head(serialIn)
            /\ serialIn' = Tail(serialIn)
            /\ out' = <<>>
            /\ state' = state /\ pc' = pc
            /\ progStepIndex' = progStepIndex
            /\ UNCHANGED moveVars
            /\ UNCHANGED progVars
            /\ UNCHANGED <<runLog, runMoves>>
            /\ stepper' = Serviced ]_vars

\* An "R" typed during a manual move has been read and dropped while the
\* move goes on.
C38_Witness ==
  /\ state = STATE_MOVING_MANUAL /\ g_moving
  /\ lineRead = Typed("R") /\ serialIn = <<>>
  /\ out = <<>> /\ programCount > 0

\* C39: in the v1.0 firmware, once a constant-speed move has completed or
\* has been aborted and the state is STATE_IDLE, no further motor step is
\* taken until a new move is started: a call of loop() that begins and
\* ends in STATE_IDLE leaves the position where it was.
C39_IdleTakesNoStep ==
  [][ (state = STATE_IDLE /\ state' = STATE_IDLE)
         => /\ stepper'.currentPos = stepper.currentPos
            /\ ~stepped' ]_vars

=============================================================================
